---- MODULE Spec2Model ----
(***************************************************************************)
(* A model of the badApple toolkit: the Commit Generator                   *)
(* (bad_apple/generate.py), the Analyzer (bad_apple/analyze_frames.py)     *)
(* and the Visualizer (bad_apple/visualize.py).  Each tool is a            *)
(* standalone, single-threaded script; one behaviour of the model is one   *)
(* invocation of one tool on one Frame-Set document.                       *)
(*                                                                         *)
(* Indices (f_idx, week_index, day_index, i) are 0-based as in the         *)
(* source; sequences are 1-based, hence the "+ 1" on every access.         *)
(* A datetime is modelled by its proleptic Gregorian ordinal              *)
(* (datetime.toordinal()); the time of day never reaches an output.        *)
(* An optional value (dict.get) is a sequence of length 0 (None) or 1.     *)
(***************************************************************************)
EXTENDS Integers, Sequences, FiniteSets, TLC

VARIABLES
    tool,            \* which script this invocation runs
    args,            \* the parsed command line (argparse namespace)
    doc,             \* the JSON document read from args.data
    pc,              \* position of the script
    frames,          \* generate.py main: frames (result of load_data)
    start_date,      \* generate.py main: start_date (ordinal)
    frames_to_use,   \* generate.py main: frames_to_use
    f_idx,           \* generate_commits: f_idx
    week_index,      \* generate_commits: week_index
    day_index,       \* generate_commits: day_index
    i,               \* create_commit_for_date: i
    calls,           \* subprocess.run invocations so far, in order
    repo,            \* commits created in the repository by this run
    out,             \* lines printed so far
    error,           \* the exception that ended the run, "" if none
    result           \* analyze(): returned dict; visualize: rendered text

vars == <<tool, args, doc, pc, frames, start_date, frames_to_use, f_idx,
          week_index, day_index, i, calls, repo, out, error, result>>

(***************************************************************************)
(* Bounds of the model and constants of the program.                       *)
(***************************************************************************)
MaxFrames == 2
MaxIntensity == 2

NumWeeks == 52
NumDays == 7

None == <<>>
Some(x) == <<x>>

Min(a, b) == IF a < b THEN a ELSE b

(***************************************************************************)
(* datetime: ordinals, strptime("%Y-%m-%d"), strftime, weekday, timedelta  *)
(***************************************************************************)
IsLeap(y) == (y % 4 = 0) /\ ((y % 100 # 0) \/ (y % 400 = 0))

DaysInMonth(y, m) ==
    IF m = 2 THEN (IF IsLeap(y) THEN 29 ELSE 28)
    ELSE IF m \in {4, 6, 9, 11} THEN 30 ELSE 31

DaysBeforeYear(y) ==
    (y - 1) * 365 + ((y - 1) \div 4) - ((y - 1) \div 100) + ((y - 1) \div 400)

\* days of the year before the first day of month m
DaysBeforeMonth(y, m) ==
    <<0, 31, 59, 90, 120, 151, 181, 212, 243, 273, 304, 334>>[m]
        + (IF m > 2 /\ IsLeap(y) THEN 1 ELSE 0)

\* a date string "YYYY-MM-DD" is given by its three fields <<Y, M, D>>
parse_date(date_str) ==
    DaysBeforeYear(date_str[1]) + DaysBeforeMonth(date_str[1], date_str[2])
        + date_str[3]

\* 365 * (y - 1) < ord <= 366 * y brackets the year
YearOf(ord) == CHOOSE y \in (ord \div 366)..(ord \div 365 + 1) :
    DaysBeforeYear(y) < ord /\ ord <= DaysBeforeYear(y + 1)

\* the month of the n-th day (n from 1) of year y
MonthOf(y, n) == CHOOSE m \in 1..12 :
    DaysBeforeMonth(y, m) < n /\ n <= DaysBeforeMonth(y, m) + DaysInMonth(y, m)

Pad2(n) == IF n < 10 THEN "0" \o ToString(n) ELSE ToString(n)

Pad4(n) ==
    IF n < 10 THEN "000" \o ToString(n)
    ELSE IF n < 100 THEN "00" \o ToString(n)
    ELSE IF n < 1000 THEN "0" \o ToString(n) ELSE ToString(n)

FormatYmd(y, n, m) ==
    Pad4(y) \o "-" \o Pad2(m) \o "-" \o Pad2(n - DaysBeforeMonth(y, m))

FormatYearDay(y, n) == FormatYmd(y, n, MonthOf(y, n))

\* dt.strftime("%Y-%m-%d")
strftime_ymd(dt) == FormatYearDay(YearOf(dt), dt - DaysBeforeYear(YearOf(dt)))

iso_date_str(dt) == strftime_ymd(dt) \o " 12:00:00"

\* datetime.weekday(): Monday is 0, Sunday is 6; ordinal 1 is a Monday
weekday(dt) == (dt + 6) % 7

timedelta(weeks, days) == 7 * weeks + days

(***************************************************************************)
(* Frame-Set documents given to the tools.  Grid(P, nw, short) is a frame  *)
(* of nw weeks whose painted pixels are the (week, day) pairs of P; the    *)
(* week of index `short` (if any) holds 6 day-values instead of 7.         *)
(* Frames are immutable once written, so a document holds its frames by    *)
(* name and Pixels(name) is the nested list the JSON holds there.          *)
(***************************************************************************)
Grid(P, nw, short) ==
    [w \in 1..nw |->
        [d \in 1..(IF w - 1 = short THEN NumDays - 1 ELSE NumDays) |->
            IF <<w - 1, d - 1>> \in P THEN 1 ELSE 0]]

FrameA == Grid({<<2, 3>>}, NumWeeks, -1)
FrameB == Grid({<<0, 0>>, <<51, 6>>}, NumWeeks, -1)
FrameC == Grid({<<0, 0>>}, NumWeeks, -1)
Frame51 == Grid({<<0, 0>>}, NumWeeks - 1, -1)
FrameShort == Grid({<<0, 0>>, <<1, 2>>}, NumWeeks, 1)

Pixels(name) ==
    CASE name = "A" -> FrameA
      [] name = "B" -> FrameB
      [] name = "C" -> FrameC
      [] name = "W51" -> Frame51
      [] name = "D6" -> FrameShort

FrameNames == {"A", "B", "C", "W51", "D6"}
FrameChoices == {"B", "W51", "D6"}

RECURSIVE SeqsUpTo(_, _)
SeqsUpTo(S, n) ==
    IF n = 0 THEN {<<>>}
    ELSE LET R == SeqsUpTo(S, n - 1) IN
        R \cup {Append(r, x) : r \in {q \in R : Len(q) = n - 1}, x \in S}

\* multi-frame documents, single-frame documents of either shape, documents
\* with both keys and a document with neither
Documents ==
    {[frames |-> fs] : fs \in SeqsUpTo(FrameChoices, MaxFrames)}
    \cup {[frames |-> <<g>>] : g \in FrameNames}
    \cup {[weeks |-> g] : g \in FrameNames}
    \cup {[frames |-> <<>>, weeks |-> "A"],
          [frames |-> <<"B">>, weeks |-> "A"],
          [width |-> NumWeeks, height |-> NumDays]}

(***************************************************************************)
(* Command lines.  A flag argparse leaves at None is None here.            *)
(***************************************************************************)
\* (--frame-spacing-weeks, --frame-spacing-days)
FrameSpacings == {<<1, None>>, <<2, None>>, <<1, Some(3)>>}

\* (--start-frame, --end-frame)
FrameSlices == {<<0, None>>, <<1, None>>, <<0, Some(1)>>}

GenerateArgs ==
    [start_date : {None, Some(<<2023, 12, 31>>)},
     intensity : 1..MaxIntensity,
     spacing : FrameSpacings,
     slice : FrameSlices,
     dry_run : BOOLEAN,
     push : BOOLEAN]

\* datetime.now() of the runs that give no --start-date
Nows == {<<2024, 2, 28>>}

\* what `git rev-list --count HEAD` prints; None: the subprocess fails, as
\* it does in a repository that has no commit yet
RevListOutcomes == {None, Some(3)}

Truthy(v) == v # 0

(***************************************************************************)
(* generate.py                                                             *)
(***************************************************************************)
\* load_data: Some(frames), or None when ValueError is raised
load_data(data) ==
    IF "frames" \in DOMAIN data THEN Some(data.frames)
    ELSE IF "weeks" \in DOMAIN data THEN Some(<<data.weeks>>)
    ELSE None

\* frames[start:end] for start >= 0 and end None or >= 0
Slice(s, start, end) ==
    LET hi == IF end = None THEN Len(s) ELSE Min(end[1], Len(s)) IN
        IF start >= hi THEN <<>> ELSE SubSeq(s, start + 1, hi)

frame_offset(idx, frame_spacing_weeks, frame_spacing_days) ==
    IF frame_spacing_days # None
    THEN timedelta(0, idx * frame_spacing_days[1])
    ELSE timedelta(idx * frame_spacing_weeks, 0)

\* faulty variant: week and day index swapped
target_date_Swapped(base, offset, w, d) == base + offset + timedelta(d, w)

\* generate_commits, line 76
target_date(base, offset, w, d) == base + offset + timedelta(w, d)

\* the target dates compute_date_range goes through
PlannedDates(fs, base, frame_spacing_weeks, frame_spacing_days) ==
    UNION {UNION {
        {target_date(base, frame_offset(f - 1, frame_spacing_weeks, frame_spacing_days),
                     w - 1, d - 1) :
            d \in {k \in 1..Len(Pixels(fs[f])[w]) : Truthy(Pixels(fs[f])[w][k])}} :
        w \in 1..Len(Pixels(fs[f]))} : f \in 1..Len(fs)}

SetMin(S) == CHOOSE x \in S : \A y \in S : x <= y
SetMax(S) == CHOOSE x \in S : \A y \in S : x >= y

\* compute_date_range: (min_date, max_date), both None without painted pixel
compute_date_range(fs, base, frame_spacing_weeks, frame_spacing_days) ==
    LET D == PlannedDates(fs, base, frame_spacing_weeks, frame_spacing_days) IN
        IF D = {} THEN <<None, None>> ELSE <<Some(SetMin(D)), Some(SetMax(D))>>

\* faulty variant: the sequence index counted from 0
CommitMessage_FromZero(f, w, d, k, n) ==
    "BadApple F" \o ToString(f + 1) \o " W" \o ToString(w + 1)
        \o " D" \o ToString(d + 1) \o " " \o ToString(k) \o "/" \o ToString(n)

\* f"BadApple F{f_idx+1} W{week_index+1} D{day_index+1}" and " {i+1}/{intensity}"
CommitMessage(f, w, d, k, n) ==
    "BadApple F" \o ToString(f + 1) \o " W" \o ToString(w + 1)
        \o " D" \o ToString(d + 1) \o " " \o ToString(k + 1) \o "/" \o ToString(n)

\* The loops of generate_commits over one frame, from the cursor (w, d) up
\* to the next thing that shows: a painted pixel, a week of the wrong
\* length (checked when the week is entered, d = 0), or the frame's end.
RECURSIVE ScanFrame(_, _, _)
ScanFrame(weeks, w, d) ==
    IF w >= Len(weeks) THEN [kind |-> "frame_end", w |-> w, d |-> 0]
    ELSE IF d = 0 /\ Len(weeks[w + 1]) # NumDays
    THEN [kind |-> "raise", w |-> w, d |-> 0]
    ELSE LET P == {k \in d..(Len(weeks[w + 1]) - 1) : Truthy(weeks[w + 1][k + 1])} IN
        IF P = {} THEN ScanFrame(weeks, w + 1, 0)
        ELSE [kind |-> "commit", w |-> w, d |-> SetMin(P)]

\* one subprocess.run invocation, whether the command succeeded, and the
\* number it printed (the count of rev-list; 0 for the other commands)
Call(cmd, ok, count) == [cmd |-> cmd, ok |-> ok, count |-> count]

\* one printed line: which print statement wrote it, and the values its
\* f-string interpolates, in order
Line(kind, values) == [kind |-> kind, values |-> values]

\* faulty variant: the dry-run flag is not looked at
PrintsOnly_Ignored(dry_run) == FALSE

\* create_commit_for_date, line 50: a dry run prints instead of running git
PrintsOnly(dry_run) == dry_run

\* faulty variant: check=True left out
CommitRaises_Unchecked(ok) == FALSE

\* create_commit_for_date, line 53: check=True turns a failure into
\* CalledProcessError
CommitRaises(ok) == ~ok

\* faulty variant: the outcome of git rev-parse is not looked at
AfterRevParse_Proceeds(ok) == "rev_list"

\* main, lines 130-134: where the run goes after git rev-parse
AfterRevParse(ok) == IF ok THEN "rev_list" ELSE "done"

\* main, line 161
ShouldPush(a) == a.push /\ ~a.dry_run

\* main, line 120: frames = load_data(args.data)
G_Load ==
    /\ tool = "generate" /\ pc = "load"
    /\ IF load_data(doc) = None
       THEN /\ error' = "ValueError: JSON must contain either 'frames' or 'weeks'"
            /\ pc' = "raised"
            /\ UNCHANGED frames
       ELSE /\ frames' = load_data(doc)[1]
            /\ pc' = "start_date"
            /\ UNCHANGED error
    /\ UNCHANGED <<tool, args, doc, start_date, frames_to_use, f_idx, week_index,
                   day_index, i, calls, repo, out, result>>

\* main, lines 122-127: the anchor given, or the Sunday before today
G_StartDate ==
    /\ tool = "generate" /\ pc = "start_date"
    /\ IF args.start_date # None
       THEN start_date' = parse_date(args.start_date[1])
       ELSE \E now \in Nows :
            LET today == parse_date(now) IN
                start_date' = today - timedelta(0, weekday(today) + 1)
    /\ pc' = "rev_parse"
    /\ UNCHANGED <<tool, args, doc, frames, frames_to_use, f_idx, week_index,
                   day_index, i, calls, repo, out, error, result>>

\* main, lines 130-134: git rev-parse --is-inside-work-tree, check=True
G_RevParse ==
    /\ tool = "generate" /\ pc = "rev_parse"
    /\ \E ok \in BOOLEAN :
        /\ calls' = Append(calls, Call("rev-parse", ok, 0))
        /\ out' = IF ok THEN out
                  ELSE Append(out, Line("error: not inside a git repository", <<>>))
        /\ pc' = AfterRevParse(ok)
    /\ UNCHANGED <<tool, args, doc, frames, start_date, frames_to_use, f_idx,
                   week_index, day_index, i, repo, error, result>>

\* main, lines 137-144: git rev-list --count HEAD; a failure counts as 0
G_RevList ==
    /\ tool = "generate" /\ pc = "rev_list"
    /\ \E o \in RevListOutcomes :
        LET commits == IF o = None THEN 0 ELSE o[1] IN
            /\ calls' = Append(calls, Call("rev-list", o # None, commits))
            /\ out' = IF commits > 0
                      THEN Append(out, Line("warning", <<commits>>))
                      ELSE out
    /\ pc' = "slice"
    /\ UNCHANGED <<tool, args, doc, frames, start_date, frames_to_use, f_idx,
                   week_index, day_index, i, repo, error, result>>

\* main, lines 147-150
G_Slice ==
    /\ tool = "generate" /\ pc = "slice"
    /\ frames_to_use' = Slice(frames, args.slice[1], args.slice[2])
    /\ pc' = "preview"
    /\ UNCHANGED <<tool, args, doc, frames, start_date, f_idx, week_index,
                   day_index, i, calls, repo, out, error, result>>

\* main, lines 153-157, then the call of generate_commits (line 159)
G_Preview ==
    /\ tool = "generate" /\ pc = "preview"
    /\ \E r \in {compute_date_range(frames_to_use, start_date,
                    args.spacing[1], args.spacing[2])} :
        out' = Append(out,
            IF r[1] # None /\ r[2] # None
            THEN Line("range", <<strftime_ymd(r[1][1]), strftime_ymd(r[2][1])>>)
            ELSE Line("range", <<"(no commits, maybe empty frame data)">>))
    /\ f_idx' = 0
    /\ pc' = "gen_frame"
    /\ UNCHANGED <<tool, args, doc, frames, start_date, frames_to_use,
                   week_index, day_index, i, calls, repo, error, result>>

\* generate_commits, lines 59-62: next frame, its length check and banner
GC_Frame ==
    /\ tool = "generate" /\ pc = "gen_frame"
    /\ IF f_idx >= Len(frames_to_use)
       THEN /\ pc' = "push"
            /\ UNCHANGED <<week_index, day_index, out, error>>
       ELSE IF Len(Pixels(frames_to_use[f_idx + 1])) # NumWeeks
       THEN /\ error' = "ValueError: Each frame must contain 52 weeks of 7-day arrays"
            /\ pc' = "raised"
            /\ UNCHANGED <<week_index, day_index, out>>
       ELSE /\ out' = Append(out, Line("frame", <<f_idx + 1, Len(frames_to_use)>>))
            /\ week_index' = 0
            /\ day_index' = 0
            /\ pc' = "gen_scan"
            /\ UNCHANGED error
    /\ UNCHANGED <<tool, args, doc, frames, start_date, frames_to_use, f_idx,
                   i, calls, repo, result>>

\* generate_commits, lines 69-74: the week and day loops up to the next
\* painted pixel, malformed week or end of the frame
GC_Scan ==
    /\ tool = "generate" /\ pc = "gen_scan"
    /\ \E e \in {ScanFrame(Pixels(frames_to_use[f_idx + 1]), week_index, day_index)} :
        /\ week_index' = e.w
        /\ day_index' = e.d
        /\ IF e.kind = "raise"
           THEN /\ error' = "ValueError: Week data must contain exactly 7 day values"
                /\ pc' = "raised"
                /\ UNCHANGED <<f_idx, i>>
           ELSE IF e.kind = "frame_end"
           THEN /\ f_idx' = f_idx + 1
                /\ pc' = "gen_frame"
                /\ UNCHANGED <<error, i>>
           ELSE /\ i' = 0
                /\ pc' = "commit"
                /\ UNCHANGED <<error, f_idx>>
    /\ UNCHANGED <<tool, args, doc, frames, start_date, frames_to_use,
                   calls, repo, out, result>>

\* the date create_commit_for_date is called with (lines 64-67, 76)
CurrentTarget ==
    target_date(start_date,
                frame_offset(f_idx, args.spacing[1], args.spacing[2]),
                week_index, day_index)

\* create_commit_for_date, lines 48-53: one turn of the loop, or its end
GC_Commit ==
    /\ tool = "generate" /\ pc = "commit"
    /\ LET commit_date == iso_date_str(CurrentTarget)
           message == CommitMessage(f_idx, week_index, day_index, i, args.intensity)
       IN
        IF i >= args.intensity
        THEN /\ day_index' = day_index + 1
             /\ pc' = "gen_scan"
             /\ UNCHANGED <<i, calls, repo, out, error>>
        ELSE IF PrintsOnly(args.dry_run)
        THEN /\ out' = Append(out, Line("dry-run", <<commit_date, message>>))
             /\ i' = i + 1
             /\ UNCHANGED <<day_index, pc, calls, repo, error>>
        ELSE \E ok \in BOOLEAN :
             /\ calls' = Append(calls, Call("commit", ok, 0))
             /\ repo' = IF ok
                        THEN Append(repo, [author_date |-> commit_date,
                                           committer_date |-> commit_date,
                                           message |-> message])
                        ELSE repo
             /\ IF CommitRaises(ok)
                THEN /\ error' = "CalledProcessError: git commit"
                     /\ pc' = "raised"
                     /\ UNCHANGED i
                ELSE /\ i' = i + 1
                     /\ UNCHANGED <<pc, error>>
             /\ UNCHANGED <<day_index, out>>
    /\ UNCHANGED <<tool, args, doc, frames, start_date, frames_to_use, f_idx,
                   week_index, result>>

\* main, lines 161-163: git push --force, its exit status not checked
G_Push ==
    /\ tool = "generate" /\ pc = "push"
    /\ IF ShouldPush(args)
       THEN /\ out' = Append(out, Line("push", <<>>))
            /\ \E ok \in BOOLEAN : calls' = Append(calls, Call("push", ok, 0))
       ELSE UNCHANGED <<out, calls>>
    /\ pc' = "done"
    /\ UNCHANGED <<tool, args, doc, frames, start_date, frames_to_use, f_idx,
                   week_index, day_index, i, repo, error, result>>

(***************************************************************************)
(* analyze_frames.py                                                       *)
(***************************************************************************)
\* dict.get(key): the value, or None.  None among frame names is "None".
Get(data, key) == IF key \in DOMAIN data THEN data[key] ELSE "None"

\* data.get("frames") or [data.get("weeks")]: an absent and an empty
\* `frames` are both falsy
FramesOr(data) ==
    IF "frames" \in DOMAIN data /\ Len(data.frames) > 0
    THEN data.frames
    ELSE <<Get(data, "weeks")>>

RECURSIVE SumSeq(_)
SumSeq(q) == IF q = <<>> THEN 0 ELSE q[1] + SumSeq(Tail(q))

\* sum(sum(week) for week in frame)
PixelCount(grid) == SumSeq([w \in 1..Len(grid) |-> SumSeq(grid[w])])

SeqRange(q) == {q[k] : k \in 1..Len(q)}

\* analyze, lines 9-23; avg is the fraction <<numerator, denominator>>
Stats(fs) ==
    LET totals == [k \in 1..Len(fs) |-> PixelCount(Pixels(fs[k]))]
        n_frames == Len(fs)
    IN  [n_frames |-> n_frames,
         min |-> IF totals # <<>> THEN SetMin(SeqRange(totals)) ELSE 0,
         max |-> IF totals # <<>> THEN SetMax(SeqRange(totals)) ELSE 0,
         avg |-> IF n_frames # 0 THEN <<SumSeq(totals), n_frames>> ELSE <<0, 1>>,
         total_pixels |-> SumSeq(totals)]

\* main lines 30-31 and analyze line 8
A_Resolve ==
    /\ tool = "analyze" /\ pc = "load"
    /\ frames' = FramesOr(doc)
    /\ pc' = "totals"
    /\ UNCHANGED <<tool, args, doc, start_date, frames_to_use, f_idx, week_index,
                   day_index, i, calls, repo, out, error, result>>

\* analyze, lines 9-23: iterating a frame that is None raises TypeError
A_Stats ==
    /\ tool = "analyze" /\ pc = "totals"
    /\ IF "None" \in SeqRange(frames)
       THEN /\ error' = "TypeError: 'NoneType' object is not iterable"
            /\ pc' = "raised"
            /\ UNCHANGED result
       ELSE /\ result' = Some(Stats(frames))
            /\ pc' = "print"
            /\ UNCHANGED error
    /\ UNCHANGED <<tool, args, doc, frames, start_date, frames_to_use, f_idx,
                   week_index, day_index, i, calls, repo, out>>

\* main, lines 33-37
A_Print ==
    /\ tool = "analyze" /\ pc = "print"
    /\ out' = out \o
        <<Line("frames", <<result[1].n_frames>>),
          Line("pixels per frame", <<result[1].min, result[1].avg, result[1].max>>),
          Line("total", <<result[1].total_pixels>>),
          Line("full", <<NumWeeks * NumDays>>)>>
    /\ pc' = "done"
    /\ UNCHANGED <<tool, args, doc, frames, start_date, frames_to_use, f_idx,
                   week_index, day_index, i, calls, repo, error, result>>

(***************************************************************************)
(* visualize.py                                                            *)
(***************************************************************************)
\* faulty variant: glyph and blank exchanged
Glyph_Inverted(v) == IF Truthy(v) THEN " " ELSE "#"

\* render_frame, line 13
Glyph(v) == IF Truthy(v) THEN "#" ELSE " "

\* render_frame, lines 12-13: one week appended to the rows
AddWeek(rows, week) ==
    [d \in 1..NumDays |->
        IF d <= Len(week) THEN Append(rows[d], Glyph(week[d])) ELSE rows[d]]

\* render_frame, lines 10-13: rows after the first n weeks
RECURSIVE RenderRows(_, _)
RenderRows(grid, n) ==
    IF n = 0 THEN [d \in 1..NumDays |-> <<>>]
    ELSE AddWeek(RenderRows(grid, n - 1), grid[n])

\* "\n".join(rows)
RECURSIVE Join(_)
Join(rows) ==
    IF Len(rows) = 0 THEN <<>>
    ELSE IF Len(rows) = 1 THEN rows[1]
    ELSE rows[1] \o <<"\n">> \o Join(Tail(rows))

\* the text, a sequence of characters
render_frame(grid) == Join(RenderRows(grid, Len(grid)))

\* main, lines 25-35: the file is looked for, a missing one is reported
V_Exists ==
    /\ tool = "visualize" /\ pc = "load"
    /\ \E exists \in BOOLEAN :
        IF exists
        THEN pc' = "resolve" /\ UNCHANGED out
        ELSE /\ out' = Append(out, Line("error: file not found", <<>>))
             /\ pc' = "done"
    /\ UNCHANGED <<tool, args, doc, frames, start_date, frames_to_use, f_idx,
                   week_index, day_index, i, calls, repo, error, result>>

\* main, lines 37-41: frames, then frames[args.frame]
V_Resolve ==
    /\ tool = "visualize" /\ pc = "resolve"
    /\ frames' = FramesOr(doc)
    /\ IF args.frame >= Len(FramesOr(doc))
       THEN /\ error' = "IndexError: list index out of range"
            /\ pc' = "raised"
       ELSE /\ pc' = "render"
            /\ UNCHANGED error
    /\ UNCHANGED <<tool, args, doc, start_date, frames_to_use, f_idx, week_index,
                   day_index, i, calls, repo, out, result>>

\* main, line 42: print(render_frame(frame))
V_Render ==
    /\ tool = "visualize" /\ pc = "render"
    /\ LET frame == frames[args.frame + 1] IN
        IF frame = "None"
        THEN /\ error' = "TypeError: 'NoneType' object is not iterable"
             /\ pc' = "raised"
             /\ UNCHANGED result
        ELSE IF \E w \in 1..Len(Pixels(frame)) : Len(Pixels(frame)[w]) > NumDays
        THEN /\ error' = "IndexError: list index out of range"
             /\ pc' = "raised"
             /\ UNCHANGED result
        ELSE /\ result' = Some(render_frame(Pixels(frame)))
             /\ pc' = "done"
             /\ UNCHANGED error
    /\ UNCHANGED <<tool, args, doc, frames, start_date, frames_to_use, f_idx,
                   week_index, day_index, i, calls, repo, out>>


VisualizeArgs == [frame : {0, 1}]
AnalyzeArgs == [data : {"frames.json"}]

Init ==
    /\ tool \in {"generate", "analyze", "visualize"}
    /\ args \in (CASE tool = "generate" -> GenerateArgs
                  [] tool = "analyze" -> AnalyzeArgs
                  [] tool = "visualize" -> VisualizeArgs)
    /\ doc \in Documents
    /\ pc = "load"
    /\ frames = <<>> /\ start_date = 0 /\ frames_to_use = <<>>
    /\ f_idx = 0 /\ week_index = 0 /\ day_index = 0 /\ i = 0
    /\ calls = <<>> /\ repo = <<>> /\ out = <<>> /\ error = ""
    /\ result = None

Next ==
    \/ G_Load \/ G_StartDate \/ G_RevParse \/ G_RevList \/ G_Slice \/ G_Preview
    \/ GC_Frame \/ GC_Scan \/ GC_Commit \/ G_Push
    \/ A_Resolve \/ A_Stats \/ A_Print
    \/ V_Exists \/ V_Resolve \/ V_Render

Spec == Init /\ [][Next]_vars

(***************************************************************************)
(* Vocabulary of the properties                                            *)
(***************************************************************************)
CallsOf(cmd) == {k \in 1..Len(calls) : calls[k].cmd = cmd}
LinesOf(kind) == {k \in 1..Len(out) : out[k].kind = kind}

WellFormed(grid) ==
    /\ Len(grid) = 52
    /\ \A w \in 1..Len(grid) :
        Len(grid[w]) = 7 /\ \A d \in 1..7 : grid[w][d] \in {0, 1}

\* the painted pixels of a grid as 0-based (week, day) pairs
Painted(grid) ==
    {p \in (0..(Len(grid) - 1)) \X (0..6) :
        p[2] < Len(grid[p[1] + 1]) /\ grid[p[1] + 1][p[2] + 1] # 0}

ValidationErrors ==
    {"ValueError: Each frame must contain 52 weeks of 7-day arrays",
     "ValueError: Week data must contain exactly 7 day values"}

\* C1: in a non-dry run that aborts with a validation error, no
\* commit-creation subprocess has been invoked at the moment of the abort.
C1_NoCommitBeforeValidationAbort ==
    (tool = "generate" /\ ~args.dry_run /\ pc = "raised"
        /\ error \in ValidationErrors)
    => CallsOf("commit") = {}

\* C2: a dry run never invokes the commit-creation subprocess nor the push
\* subprocess, whatever the intensity, the frames and the push flag; each
\* planned invocation is printed instead.
C2_DryRunRunsNoCommitNoPush ==
    (tool = "generate" /\ args.dry_run)
    => /\ CallsOf("commit") = {}
       /\ CallsOf("push") = {}
       /\ repo = <<>>
       /\ (pc = "commit" => Cardinality(LinesOf("dry-run")) >= i)

C2_Witness ==
    /\ tool = "generate" /\ args.dry_run /\ args.push /\ pc = "done"
    /\ args.intensity = MaxIntensity
    /\ Len(frames_to_use) = MaxFrames
    /\ Cardinality(LinesOf("dry-run")) >= 2 * MaxIntensity

\* the case of C3: anchor 2023-12-31, frame spacing 1 week, a single frame
\* whose only painted pixel is (week 2, day 3)
C3_Case ==
    /\ tool = "generate"
    /\ args.start_date = Some(<<2023, 12, 31>>)
    /\ args.spacing = <<1, None>>
    /\ Len(frames_to_use) = 1
    /\ Painted(Pixels(frames_to_use[1])) = {<<2, 3>>}

\* C3 as stated: in that case every commit created is dated 2024-01-16.
C3_DateIsJan16 ==
    C3_Case => \A k \in 1..Len(repo) :
        /\ repo[k].author_date = "2024-01-16 12:00:00"
        /\ repo[k].committer_date = "2024-01-16 12:00:00"

\* C3 amended: in that case every commit created is dated anchor + 2 weeks
\* + 3 days, which is 2024-01-17, at noon.
C3_DateIsJan17 ==
    C3_Case => \A k \in 1..Len(repo) :
        /\ repo[k].author_date = "2024-01-17 12:00:00"
        /\ repo[k].committer_date = "2024-01-17 12:00:00"

C3_Witness ==
    /\ C3_Case /\ pc = "done"
    /\ Len(repo) = MaxIntensity
    /\ repo[1].author_date = "2024-01-17 12:00:00"

\* C4 as stated: on the document {"frames": []} the Analyzer raises nothing
\* and returns frame count 0, average 0, minimum 0 and maximum 0.
C4_ZeroFramesStats ==
    (tool = "analyze" /\ doc = [frames |-> <<>>])
    => /\ pc # "raised"
       /\ pc \in {"print", "done"} =>
            /\ result[1].n_frames = 0
            /\ result[1].avg[1] = 0
            /\ result[1].min = 0
            /\ result[1].max = 0

\* the frame sequence C5 gives a document: `frames` if the key is there,
\* else [weeks], else none (a data-format error)
C5_Resolution(d) ==
    IF "frames" \in DOMAIN d THEN Some(d.frames)
    ELSE IF "weeks" \in DOMAIN d THEN Some(<<d.weeks>>)
    ELSE None

C5_HasResolved ==
    \/ tool = "generate" /\ pc # "load"
    \/ tool = "analyze" /\ pc # "load"
    \/ tool = "visualize" /\ pc \in {"render", "raised"}
    \/ tool = "visualize" /\ result # None

\* C5 as stated: every consumer resolves its document the same way, and
\* fails with a data-format error, no frame processed, without either key.
C5_SameResolution ==
    C5_HasResolved =>
        IF C5_Resolution(doc) = None
        THEN /\ pc = "raised"
             /\ error = "ValueError: JSON must contain either 'frames' or 'weeks'"
             /\ frames = <<>>
        ELSE frames = C5_Resolution(doc)[1]

\* the lines of a text: what lies between its newline characters
SplitLines(text) ==
    LET NL == {k \in 1..Len(text) : text[k] = "\n"}
        Pos(r) == IF r = 0 THEN 0
                  ELSE IF r > Cardinality(NL) THEN Len(text) + 1
                  ELSE CHOOSE k \in NL : Cardinality({j \in NL : j < k}) = r - 1
    IN [r \in 1..(Cardinality(NL) + 1) |-> SubSeq(text, Pos(r - 1) + 1, Pos(r) - 1)]

\* C6: for a well-formed frame the rendering is 7 lines of 52 characters,
\* the character of line r, column w being '#' iff frame[w][r] = 1 and a
\* space otherwise; a frame with only (week 0, day 0) painted has '#' first
\* on line 0 and 363 spaces.
C6_RenderShape ==
    (/\ tool = "visualize" /\ result # None
     /\ WellFormed(Pixels(frames[args.frame + 1])))
    => LET grid == Pixels(frames[args.frame + 1])
           L == SplitLines(result[1])
       IN /\ Len(L) = 7
          /\ \A r \in 1..7 :
                /\ Len(L[r]) = 52
                /\ \A w \in 1..52 :
                    L[r][w] = (IF grid[w][r] = 1 THEN "#" ELSE " ")
          /\ Painted(grid) = {<<0, 0>>} =>
                /\ L[1][1] = "#"
                /\ Cardinality({p \in (1..7) \X (1..52) : L[p[1]][p[2]] = " "}) = 363

C6_Witness ==
    /\ tool = "visualize" /\ result # None
    /\ Painted(Pixels(frames[args.frame + 1])) = {<<0, 0>>}
    /\ WellFormed(Pixels(frames[args.frame + 1]))
    /\ result[1][1] = "#"

\* C7: the check that the directory is under version control comes before
\* any commit or push subprocess; when it fails the error is reported and
\* the run ends with no commit and no push; existing history only adds a
\* warning, after which the run goes on to the preview and the commits.
C7_RepoCheckFirst ==
    tool = "generate" =>
        /\ Len(calls) >= 1 => calls[1].cmd = "rev-parse"
        /\ CallsOf("commit") \cup CallsOf("push") # {} => calls[1].ok
        /\ (Len(calls) >= 1 /\ ~calls[1].ok) =>
                /\ Len(calls) = 1 /\ repo = <<>>
                /\ pc = "done" /\ error = ""
                /\ LinesOf("error: not inside a git repository") # {}
                /\ ~ENABLED Next
        /\ (Len(calls) >= 2 /\ calls[2].count > 0) =>
                /\ calls[2].cmd = "rev-list"
                /\ LinesOf("warning") # {}
                /\ LinesOf("error: not inside a git repository") = {}
                /\ pc \in {"slice", "preview"} \/ LinesOf("range") # {}
                /\ pc = "done" => f_idx = Len(frames_to_use)

C7_Witness ==
    /\ tool = "generate" /\ pc = "done"
    /\ ~args.dry_run
    /\ LinesOf("warning") # {}
    /\ LinesOf("range") # {}
    /\ Len(repo) >= 2

\* (frame, week, day) of every painted pixel of the selected frames
C8_PaintedPixels ==
    UNION {{<<f - 1, q[1], q[2]>> : q \in Painted(Pixels(frames_to_use[f]))} :
            f \in 1..Len(frames_to_use)}

C8_LexLess(a, b) ==
    \/ a[1] < b[1]
    \/ a[1] = b[1] /\ a[2] < b[2]
    \/ a[1] = b[1] /\ a[2] = b[2] /\ a[3] < b[3]

\* the r-th pixel of P (r from 0) in (frame, week, day) order
C8_PixelOfRank(P, r) ==
    CHOOSE p \in P : Cardinality({q \in P : C8_LexLess(q, p)}) = r

C9_CommitFailureIsFatal ==
    tool = "generate" =>
        \A k \in CallsOf("commit") : ~calls[k].ok =>
            /\ k = Len(calls)
            /\ pc = "raised" /\ error = "CalledProcessError: git commit"
            /\ Len(repo) = Cardinality(CallsOf("commit")) - 1
            /\ ~ENABLED Next

C9_Witness ==
    /\ tool = "generate" /\ pc = "raised" /\ args.push
    /\ error = "CalledProcessError: git commit"
    /\ Len(repo) >= 2
    /\ ~calls[Len(calls)].ok

\* the commit the run over the full FrameSet makes for frame index j of the
\* loaded FrameSet, week w, day d, sequence index k + 1
C10_FullRunCommit(j, w, d, k) ==
    LET date == start_date
                + frame_offset(j, args.spacing[1], args.spacing[2])
                + timedelta(w, d)
    IN [author_date |-> iso_date_str(date),
        committer_date |-> iso_date_str(date),
        message |-> CommitMessage(j, w, d, k, args.intensity)]

C10_IncludedIndices ==
    {j \in 0..(Len(frames) - 1) :
        /\ j >= args.slice[1]
        /\ args.slice[2] # None => j < args.slice[2][1]}

\* C10 as stated: a commit of frame index j of the loaded FrameSet,
\* week w, day d is dated anchor + j * spacing + w weeks + d days and is
\* labelled F(j+1), whatever the start and end frame: every commit of a
\* restricted run is one the run over the full FrameSet gives an included
\* frame.
C10_OffsetByLoadedIndex ==
    tool = "generate" =>
        \A c \in 1..Len(repo) :
            \E j \in C10_IncludedIndices :
                \E p \in Painted(Pixels(frames[j + 1])) :
                    \E k \in 0..(args.intensity - 1) :
                        repo[c] = C10_FullRunCommit(j, p[1], p[2], k)

====
